---------------------------- MODULE Spec2Model ----------------------------
(* BloonGuessr: the balloon feed reader, the photo-resolution pipeline with *)
(* its file cache, and round assembly (gameService.ts, routes/balloon.ts).  *)
(* Every await of the service is a step of a request; the synchronous code  *)
(* between two awaits is one action.                                        *)
EXTENDS Integers, Sequences, FiniteSets, TLC

VARIABLES
    now,        \* Date.now(), in milliseconds
    ticks,      \* how often the clock has advanced (bounded)
    cacheFile,  \* cache/photos.json: [exists, text]
    lastSave,   \* history: the key and entry of the latest successful saveCache
    hist,       \* history: the latest saver and its mapping, the entries looked up and saved
    guess,      \* the guess submission in flight: its body, position and answer
    browser,    \* the page of public/game.js: gameState, the screen shown, fetches in flight
    accessKey,  \* whether process.env.UNSPLASH_ACCESS_KEY is set
    req         \* per request: the position and locals of its async call chain

vars == <<now, ticks, cacheFile, lastSave, hist, guess, browser, accessKey, req>>

-----------------------------------------------------------------------------
(* Bounds of the model *)

MaxTicks == 1
MaxDirectRounds == 2
MaxShuffleLen == 3

\* the requests in flight: one where a claim is about a single call chain, two where
\* it is about concurrent game starts
Reqs == {1}
AllReqs == {1, 2}

-----------------------------------------------------------------------------
(* JSON / JavaScript values as the feed delivers them *)

Undef == [t |-> "undef", n |-> 0, s |-> ""]
Null == [t |-> "null", n |-> 0, s |-> ""]
Num(x) == [t |-> "num", n |-> x, s |-> ""]
Str(x) == [t |-> "str", n |-> 0, s |-> x]

\* JavaScript truthiness of a value (0, "", null and undefined are falsy)
Truthy(x) == \/ (x.t = "num" /\ x.n # 0)
             \/ (x.t = "str" /\ x.s # "")

\* a || b
Or(a, b) == IF Truthy(a) THEN a ELSE b

\* an object's fields are a function from the names it has; item.name is undefined
\* for every other name
NoFields == [n \in {} |-> Undef]
Field(item, name) == IF name \in DOMAIN item.f THEN item.f[name] ELSE Undef

\* feed entries: null, a primitive, a coordinate list, an object
NullItem == [k |-> "null", e |-> <<>>, f |-> NoFields, p |-> Null]
PrimItem(v) == [k |-> "prim", e |-> <<>>, f |-> NoFields, p |-> v]
ArrItem(e) == [k |-> "arr", e |-> e, f |-> NoFields, p |-> Undef]
ObjItem(g) == [k |-> "obj", e |-> <<>>, f |-> g, p |-> Undef]

\* item[i] of a JavaScript array (0-based), undefined past the end
At(e, i) == IF i + 1 <= Len(e) THEN e[i + 1] ELSE Undef

\* !item
Falsy(item) == \/ item.k = "null"
               \/ (item.k = "prim" /\ ~Truthy(item.p))

NoBalloon == [ok |-> FALSE, id |-> Undef, lat |-> Undef, lon |-> Undef, alt |-> Undef]

\* mutant: the upper bound of the latitude is not checked
InRange_NoUpperLat(lat, lon) ==
    /\ lat.t = "num" /\ lon.t = "num"
    /\ lat.n >= -90
    /\ lon.n >= -180 /\ lon.n <= 180

InRange(lat, lon) ==
    /\ lat.t = "num" /\ lon.t = "num"
    /\ lat.n >= -90 /\ lat.n <= 90
    /\ lon.n >= -180 /\ lon.n <= 180

extractCoordinates(item, id) ==
    IF Falsy(item) THEN NoBalloon
    ELSE IF item.k = "arr" /\ InRange(At(item.e, 0), At(item.e, 1))
    THEN [ok |-> TRUE, id |-> id, lat |-> At(item.e, 0), lon |-> At(item.e, 1),
          alt |-> IF At(item.e, 2).t = "num" THEN At(item.e, 2) ELSE Undef]
    ELSE IF item.k \in {"arr", "obj"}
    THEN LET lat == Or(Or(Or(Field(item, "lat"), Field(item, "latitude")),
                          Field(item, "Lat")), Field(item, "Latitude"))
             lon == Or(Or(Or(Or(Field(item, "lon"), Field(item, "lng")),
                             Field(item, "longitude")), Field(item, "Lon")),
                       Field(item, "Longitude"))
         IN  IF InRange(lat, lon)
             THEN [ok |-> TRUE,
                   id |-> Or(Or(Or(Field(item, "id"), Field(item, "ID")),
                                Field(item, "balloon_id")), id),
                   lat |-> lat, lon |-> lon,
                   alt |-> Or(Or(Or(Field(item, "alt"), Field(item, "altitude")),
                                 Field(item, "Alt")), Field(item, "Altitude"))]
             ELSE NoBalloon
    ELSE NoBalloon

\* index.toString() / the keys of an object payload
IndexStr(i) == CASE i = 0 -> "0" [] i = 1 -> "1" [] i = 2 -> "2" [] i = 3 -> "3"
                 [] i = 4 -> "4" [] OTHER -> "5"

\* response.data: an object with numbered keys, an array, or anything else
ObjData(items) == [k |-> "obj", items |-> items]
ArrData(items) == [k |-> "arr", items |-> items]
OtherData == [k |-> "other", items |-> <<>>]

RECURSIVE Collect(_, _)
Collect(items, i) ==
    IF i >= Len(items) THEN <<>>
    ELSE LET b == extractCoordinates(items[i + 1], Str(IndexStr(i)))
         IN  (IF b.ok THEN <<b>> ELSE <<>>) \o Collect(items, i + 1)

\* the balloons one hourly payload yields
PayloadBalloons(data) ==
    IF data.k \in {"obj", "arr"} THEN Collect(data.items, 0) ELSE <<>>


-----------------------------------------------------------------------------
(* Program constants *)

HOURS == 24

CACHE_DURATION == 24 * 60 * 60 * 1000

RouteRounds == 5

NoDataError == "No balloon data available. The WindBorne API might be down."

NoPhotosError == "Could not find any photos for the selected balloons. Please try again!"

-----------------------------------------------------------------------------
(* A request: one call chain of the service, suspended at its awaits *)

NoOutcome == [kind |-> "none", error |-> ""]
NoResponse == [status |-> 0, rounds |-> <<>>]
NoPhoto == [ok |-> FALSE, url |-> "", attribution |-> "", locationName |-> "",
            lat |-> Undef, lon |-> Undef, distance |-> 0]
EmptyCache == [k \in {} |-> 0]
NoEntry == [balloonId |-> Undef, photoUrl |-> "", photoAttribution |-> "",
            locationName |-> "", timestamp |-> 0]
NoSave == [key |-> "", entry |-> NoEntry]
NoFeedOutcome == [k |-> "none", data |-> OtherData]

InitReq ==
    [pc |-> "idle", op |-> "none", viaRoute |-> FALSE, numRounds |-> 0,
     \* fetchBalloonData
     hour |-> 0, data |-> NoFeedOutcome, balloons |-> <<>>, fetchDone |-> FALSE,
     requested |-> <<>>, yields |-> <<>>,
     \* createGameRound
     shuffled |-> <<>>, si |-> 0, selected |-> <<>>, i |-> 0, rounds |-> <<>>,
     attempts |-> 0, found |-> 0,
     \* getPhotoForLocation
     cache |-> EmptyCache, loaded |-> FALSE, docBefore |-> <<>>, checkedAt |-> 0,
     prevSave |-> NoSave, missed |-> {},
     locationName |-> "", geoCalled |-> FALSE,
     photoCalled |-> FALSE, photo |-> NoPhoto, path |-> "none",
     \* what the call chain ended with
     outcome |-> NoOutcome, response |-> NoResponse]

\* createGameRound returns to its caller; the route answers res.json({ rounds })
Returned(st, rounds) ==
    [st EXCEPT !.pc = "done",
               !.outcome = [kind |-> "rounds", error |-> ""],
               !.response = IF st.viaRoute THEN [status |-> 200, rounds |-> rounds]
                            ELSE NoResponse]

\* createGameRound throws; the route's catch answers status 500
Thrown(st, msg) ==
    [st EXCEPT !.pc = "done",
               !.outcome = [kind |-> "error", error |-> msg],
               !.response = IF st.viaRoute THEN [status |-> 500, rounds |-> <<>>]
                            ELSE NoResponse]

-----------------------------------------------------------------------------
(* createGameRound, from the return of fetchBalloonData to shuffleArray *)

\* the locals of fetchBalloonData are gone once it has returned
FetchLocalsDropped(st) ==
    [st EXCEPT !.hour = 0, !.data = NoFeedOutcome, !.requested = <<>>, !.yields = <<>>]

\* mutant: the empty feed is not checked for
createGameRoundResumes_NoCheck(st) ==
    [FetchLocalsDropped(st) EXCEPT !.pc = "shuffle", !.shuffled = st.balloons,
                                   !.si = Len(st.balloons) - 1]

\* balloons.length === 0 throws; otherwise shuffleArray copies the array and
\* starts at its last index
createGameRoundResumes(st) ==
    IF Len(st.balloons) = 0
    THEN Thrown(FetchLocalsDropped(st), NoDataError)
    ELSE [FetchLocalsDropped(st) EXCEPT !.pc = "shuffle", !.shuffled = st.balloons,
                                        !.si = Len(st.balloons) - 1]

-----------------------------------------------------------------------------
(* fetchBalloonData *)

NotFound == [k |-> "404", data |-> OtherData]
TransportError == [k |-> "error", data |-> OtherData]
Ok(data) == [k |-> "ok", data |-> data]

\* mutant: only a 404 is swallowed, any other error is thrown on
CatchContinues_Only404(o) == o.k = "404"

\* the catch block: a 404 and every other error are logged, the loop goes on
CatchContinues(o) == TRUE

\* the loop header's next value of hour
NextHour(hour) == hour + 1

\* mutant: an hour with a single balloon is passed over
HourYields_MoreThanOne(balloons) == Len(balloons) > 1

\* balloons.length > 0: this hour's balloons are returned
HourYields(balloons) == Len(balloons) > 0

\* the value fetchBalloonData hands to the code awaiting it
FetchReturns(st, balloons) ==
    LET base == [st EXCEPT !.balloons = balloons, !.fetchDone = TRUE]
    IN  IF st.op = "fetch"
        THEN [base EXCEPT !.pc = "done", !.outcome = [kind |-> "balloons", error |-> ""]]
        ELSE createGameRoundResumes(base)

\* axios.get for the hour awaited settles: response.data, or a rejection
axiosGetSettles(r, outcomes) ==
    /\ req[r].pc = "fetch"
    /\ \E o \in outcomes :
         req' = [req EXCEPT ![r].data = o,
                            ![r].pc = IF o.k = "ok" THEN "extract" ELSE "caught"]
    /\ UNCHANGED <<now, ticks, cacheFile, lastSave, hist, guess, browser, accessKey>>

\* the try block from `let balloons = []` to the end of the extraction
extractBalloons(r) ==
    /\ req[r].pc = "extract"
    /\ req' = [req EXCEPT ![r].balloons = PayloadBalloons(req[r].data.data),
                          ![r].yields = IF Len(PayloadBalloons(req[r].data.data)) > 0
                                        THEN Append(@, req[r].hour) ELSE @,
                          ![r].pc = "decide"]
    /\ UNCHANGED <<now, ticks, cacheFile, lastSave, hist, guess, browser, accessKey>>

\* the hour's balloons are returned, or the loop goes to the next hour and sends its
\* request, or (after hour 23) the empty array is returned
HourEnds(st) ==
    IF st.pc = "caught" /\ ~CatchContinues(st.data)
    THEN [st EXCEPT !.pc = "done", !.fetchDone = TRUE,
                    !.outcome = [kind |-> "error", error |-> "raised"]]
    ELSE IF st.pc = "decide" /\ HourYields(st.balloons)
    THEN FetchReturns(st, st.balloons)
    ELSE IF NextHour(st.hour) < HOURS
    THEN [st EXCEPT !.hour = NextHour(st.hour),
                    !.requested = Append(@, NextHour(st.hour)),
                    !.data = NoFeedOutcome, !.balloons = <<>>, !.pc = "fetch"]
    ELSE FetchReturns(st, <<>>)

fetchBalloonData(r) ==
    /\ req[r].pc \in {"decide", "caught"}
    /\ req' = [req EXCEPT ![r] = HourEnds(req[r])]
    /\ UNCHANGED <<now, ticks, cacheFile, lastSave, hist, guess, browser, accessKey>>

\* a caller awaits fetchBalloonData(): the request for 00.json goes out
CallFetchBalloonData(r) ==
    /\ req[r].pc = "idle"
    /\ req' = [req EXCEPT ![r] = [InitReq EXCEPT !.pc = "fetch", !.op = "fetch",
                                                 !.requested = <<0>>]]
    /\ UNCHANGED <<now, ticks, cacheFile, lastSave, hist, guess, browser, accessKey>>


\* GET /api/game/start: the route awaits createGameRound(5)
gameStart(r) ==
    /\ req[r].pc = "idle"
    /\ req' = [req EXCEPT ![r] = [InitReq EXCEPT !.pc = "fetch", !.op = "create",
                                                 !.viaRoute = TRUE,
                                                 !.numRounds = RouteRounds,
                                                 !.requested = <<0>>]]
    /\ UNCHANGED <<now, ticks, cacheFile, lastSave, hist, guess, browser, accessKey>>

\* a caller awaits createGameRound(numRounds)
createGameRound(r, numRounds) ==
    /\ req[r].pc = "idle"
    /\ req' = [req EXCEPT ![r] = [InitReq EXCEPT !.pc = "fetch", !.op = "create",
                                                 !.numRounds = numRounds,
                                                 !.requested = <<0>>]]
    /\ UNCHANGED <<now, ticks, cacheFile, lastSave, hist, guess, browser, accessKey>>

-----------------------------------------------------------------------------
(* secureRandomInt / shuffleArray *)

\* Math.ceil(Math.log2(range) / 8)
BytesNeeded(range) == IF range <= 1 THEN 0 ELSE IF range <= 256 THEN 1 ELSE 2

RECURSIVE Pow256(_)
Pow256(n) == IF n = 0 THEN 1 ELSE 256 * Pow256(n - 1)

RECURSIVE RandomValue(_, _)
RandomValue(bytes, n) ==
    IF n = 0 THEN 0 ELSE RandomValue(bytes, n - 1) * 256 + bytes[n]

\* Math.floor((randomValue / maxValue) * range)
secureRandomInt(max, bytes) ==
    (RandomValue(bytes, BytesNeeded(max)) * max) \div Pow256(BytesNeeded(max))

\* mutant: a[i] = a[j], the element at i is not carried over to j
Swap_Overwrite(a, i, j) == [a EXCEPT ![i + 1] = a[j + 1]]

\* [a[i], a[j]] = [a[j], a[i]], indices 0-based
Swap(a, i, j) == [a EXCEPT ![i + 1] = a[j + 1], ![j + 1] = a[i + 1]]

\* one iteration of the Fisher-Yates loop, i = si
shuffleArray(r) ==
    /\ req[r].pc = "shuffle"
    /\ req[r].si > 0
    /\ \E bytes \in [1..BytesNeeded(req[r].si + 1) -> 0..255] :
         LET j == secureRandomInt(req[r].si + 1, bytes)
         IN  req' = [req EXCEPT ![r].shuffled = Swap(@, req[r].si, j),
                                ![r].si = @ - 1]
    /\ UNCHANGED <<now, ticks, cacheFile, lastSave, hist, guess, browser, accessKey>>

\* a caller calls shuffleArray(array): the array is copied, the loop starts at the
\* last index
CallShuffleArray(r, arrays) ==
    /\ req[r].pc = "idle"
    /\ \E array \in arrays :
         req' = [req EXCEPT ![r] = [InitReq EXCEPT !.pc = "shuffle", !.op = "shuffle",
                                                      !.balloons = array,
                                                      !.shuffled = array,
                                                      !.si = Len(array) - 1]]
    /\ UNCHANGED <<now, ticks, cacheFile, lastSave, hist, guess, browser, accessKey>>

\* the loop of shuffleArray is over: the copy is returned to the caller
shuffleArrayReturns(r) ==
    /\ req[r].pc = "shuffle"
    /\ req[r].op = "shuffle"
    /\ ~(req[r].si > 0)
    /\ req' = [req EXCEPT ![r].pc = "done",
                          ![r].outcome = [kind |-> "shuffled", error |-> ""]]
    /\ UNCHANGED <<now, ticks, cacheFile, lastSave, hist, guess, browser, accessKey>>

\* mutant: every shuffled balloon is a candidate
SelectedBalloons_All(shuffled, numRounds) == shuffled

\* shuffledBalloons.slice(0, Math.min(numRounds * 3, shuffledBalloons.length))
SelectedBalloons(shuffled, numRounds) ==
    SubSeq(shuffled, 1, IF numRounds * 3 < Len(shuffled) THEN numRounds * 3
                        ELSE Len(shuffled))

\* the shuffle is over: the candidates are cut and the loop starts with i = 0
selectBalloons(r) ==
    /\ req[r].pc = "shuffle"
    /\ req[r].op = "create"
    /\ ~(req[r].si > 0)
    /\ req' = [req EXCEPT ![r].selected = SelectedBalloons(req[r].shuffled, req[r].numRounds),
                          ![r].i = 0, ![r].rounds = <<>>, ![r].pc = "loop"]
    /\ UNCHANGED <<now, ticks, cacheFile, lastSave, hist, guess, browser, accessKey>>

-----------------------------------------------------------------------------
(* The cache document: loadCache, saveCache, isCacheValid *)

NoFile == [exists |-> FALSE, text |-> <<>>]

\* the property key a balloon id is stored under (String(id))
CacheKey(id) == IF id.t = "str" THEN id.s ELSE IndexStr(id.n)

\* the numeric value of an integer-like key
KeyNum(key) == CASE key = "0" -> 0 [] key = "1" -> 1 [] key = "2" -> 2
                 [] key = "3" -> 3 [] key = "4" -> 4 [] OTHER -> 5

MinKey(keys) == CHOOSE k \in keys : \A other \in keys : KeyNum(k) <= KeyNum(other)

\* the keys of an object in enumeration order (integer-like keys ascend)
RECURSIVE KeyOrder(_)
KeyOrder(keys) ==
    IF keys = {} THEN <<>>
    ELSE <<MinKey(keys)>> \o KeyOrder(keys \ {MinKey(keys)})

\* mutant: the url and the attribution are written under each other's name
Stringify_Swapped(cache) ==
    LET order == KeyOrder(DOMAIN cache)
    IN  [n \in 1..Len(order) |->
            [key |-> order[n],
             balloonId |-> cache[order[n]].balloonId,
             photoUrl |-> cache[order[n]].photoAttribution,
             photoAttribution |-> cache[order[n]].photoUrl,
             locationName |-> cache[order[n]].locationName,
             timestamp |-> cache[order[n]].timestamp]]

\* JSON.stringify(cache, null, 2): the members of the object, one after another
Stringify(cache) ==
    LET order == KeyOrder(DOMAIN cache)
    IN  [n \in 1..Len(order) |->
            [key |-> order[n],
             balloonId |-> cache[order[n]].balloonId,
             photoUrl |-> cache[order[n]].photoUrl,
             photoAttribution |-> cache[order[n]].photoAttribution,
             locationName |-> cache[order[n]].locationName,
             timestamp |-> cache[order[n]].timestamp]]

\* JSON.parse(data): the object the members describe (a repeated key: the last wins)
Parse(text) ==
    LET keys == {text[n].key : n \in 1..Len(text)}
        last(k) == CHOOSE n \in 1..Len(text) :
                       /\ text[n].key = k
                       /\ \A m \in 1..Len(text) : text[m].key = k => m <= n
    IN  [k \in keys |->
            [balloonId |-> text[last(k)].balloonId,
             photoUrl |-> text[last(k)].photoUrl,
             photoAttribution |-> text[last(k)].photoAttribution,
             locationName |-> text[last(k)].locationName,
             timestamp |-> text[last(k)].timestamp]]

\* loadCache: the parsed document; {} when the file is absent or reading it fails
loadCache(file, readOk) ==
    IF file.exists /\ readOk THEN Parse(file.text) ELSE EmptyCache

\* mutant: the mapping is written after what the file already holds
saveCache_Appending(file, cache, writeOk) ==
    IF writeOk THEN [exists |-> TRUE, text |-> file.text \o Stringify(cache)] ELSE file

\* mutant: the mapping is merged into what the file holds at the time of the save
saveCache_Merging(file, cache, writeOk) ==
    IF writeOk
    THEN [exists |-> TRUE,
          text |-> Stringify([k \in DOMAIN Parse(file.text) \cup DOMAIN cache |->
                                 IF k \in DOMAIN cache THEN cache[k]
                                 ELSE Parse(file.text)[k]])]
    ELSE file

\* mutant: a failed save leaves no file behind
saveCache_DeletesOnFailure(file, cache, writeOk) ==
    IF writeOk THEN [exists |-> TRUE, text |-> Stringify(cache)]
    ELSE [exists |-> FALSE, text |-> <<>>]

\* saveCache: the whole mapping replaces the file; a failure is logged and swallowed
saveCache(file, cache, writeOk) ==
    IF writeOk THEN [exists |-> TRUE, text |-> Stringify(cache)] ELSE file

\* mutant: the duration is taken in seconds
isCacheValid_Seconds(cached, t) == (t - cached.timestamp) < 24 * 60 * 60

isCacheValid(cached, t) == (t - cached.timestamp) < CACHE_DURATION

-----------------------------------------------------------------------------
(* reverseGeocode and fetchUnsplashPhoto *)

GeoError == [k |-> "error", hasAddress |-> FALSE, city |-> "", town |-> "", state |-> "",
             country |-> "", ocean |-> "", sea |-> ""]
GeoNoAddress == [GeoError EXCEPT !.k = "ok"]
GeoAddress(city, town, state, country, ocean, sea) ==
    [k |-> "ok", hasAddress |-> TRUE, city |-> city, town |-> town, state |-> state,
     country |-> country, ocean |-> ocean, sea |-> sea]

\* the place name, "" standing for null
reverseGeocode(resp) ==
    IF resp.k = "error" \/ ~resp.hasAddress THEN ""
    ELSE IF resp.city # "" THEN resp.city
    ELSE IF resp.town # "" THEN resp.town
    ELSE IF resp.state # "" THEN resp.state
    ELSE IF resp.country # "" THEN resp.country
    ELSE IF resp.ocean # "" THEN resp.ocean
    ELSE IF resp.sea # "" THEN resp.sea
    ELSE "Unknown Location"

PhotoError == [k |-> "error", results |-> <<>>]
PhotoResults(results) == [k |-> "ok", results |-> results]

NoUnsplash == [ok |-> FALSE, url |-> "", attribution |-> ""]

\* `Photo by ${photo.user.name} on Unsplash`
Attribution(name) == "Photo by " \o name \o " on Unsplash"

\* the photo picked from the results (pick = Math.floor(Math.random() * length)),
\* none on an error, on no results and when the picked result has no urls
fetchUnsplashPhoto(resp, pick) ==
    IF resp.k = "error" \/ Len(resp.results) = 0 THEN NoUnsplash
    ELSE IF ~resp.results[pick + 1].hasUrls THEN NoUnsplash
    ELSE [ok |-> TRUE, url |-> resp.results[pick + 1].regular,
          attribution |-> Attribution(resp.results[pick + 1].userName)]

-----------------------------------------------------------------------------
(* getPhotoForLocation and the loop of createGameRound *)

\* the result built from a valid cache entry
CachedResult(cached, lat, lon) ==
    [ok |-> TRUE, url |-> cached.photoUrl, attribution |-> cached.photoAttribution,
     locationName |-> cached.locationName, lat |-> lat, lon |-> lon, distance |-> 0]

\* the result built from a fresh lookup
FreshResult(photo, locationName, lat, lon) ==
    [ok |-> TRUE, url |-> photo.url, attribution |-> photo.attribution,
     locationName |-> locationName, lat |-> lat, lon |-> lon, distance |-> 0]

\* the entry written after a fresh lookup
CachedPhoto(balloonId, photo, locationName, t) ==
    [balloonId |-> balloonId, photoUrl |-> photo.url,
     photoAttribution |-> photo.attribution, locationName |-> locationName,
     timestamp |-> t]

\* mutant: the balloon's latitude and longitude are taken for each other
GameRound_SwappedLatLon(balloon, photo) ==
    [balloonId |-> balloon.id, balloonLat |-> balloon.lon, balloonLon |-> balloon.lat,
     photoUrl |-> photo.url, photoAttribution |-> photo.attribution,
     locationName |-> photo.locationName, photoLat |-> photo.lat,
     photoLon |-> photo.lon, distanceKm |-> photo.distance]

\* the round pushed for a candidate whose lookup returned a photo
GameRound(balloon, photo) ==
    [balloonId |-> balloon.id, balloonLat |-> balloon.lat, balloonLon |-> balloon.lon,
     photoUrl |-> photo.url, photoAttribution |-> photo.attribution,
     locationName |-> photo.locationName, photoLat |-> photo.lat,
     photoLon |-> photo.lon, distanceKm |-> photo.distance]

\* mutant: the loop does not stop once numRounds rounds are collected
LoopContinues_NoEarlyStop(st) == st.i < Len(st.selected)

\* i < selectedBalloons.length && rounds.length < numRounds
LoopContinues(st) == st.i < Len(st.selected) /\ Len(st.rounds) < st.numRounds

Candidate(st) == st.selected[st.i + 1]

\* mutant: the round is put in front of the rounds collected so far
LoopBody_Unshift(st, photo) ==
    [st EXCEPT !.rounds = IF photo.ok THEN <<GameRound(Candidate(st), photo)>> \o @ ELSE @,
               !.i = @ + 1,
               !.pc = "loop"]

\* if (photo) rounds.push(...), and the loop's i++
LoopBody(st, photo) ==
    [st EXCEPT !.rounds = IF photo.ok THEN Append(@, GameRound(Candidate(st), photo)) ELSE @,
               !.i = @ + 1,
               !.pc = "loop"]

\* getPhotoForLocation returns photo (or null) to the loop body
LookupReturns(st, photo, path) ==
    LoopBody([st EXCEPT !.photo = photo, !.path = path,
                        !.found = IF photo.ok THEN @ + 1 ELSE @,
                        !.cache = EmptyCache, !.locationName = ""],
             photo)

\* the loop body up to the first await: loadCache, the cache check, and either the
\* cached result or the request to the reverse-geocoding service
getPhotoForLocation(r) ==
    /\ req[r].pc = "loop"
    /\ LoopContinues(req[r])
    /\ \E readOk \in (IF cacheFile.exists THEN BOOLEAN ELSE {TRUE}) :
         LET balloon == Candidate(req[r])
             key == CacheKey(balloon.id)
             cache == loadCache(cacheFile, readOk)
             st == [req[r] EXCEPT !.cache = cache, !.loaded = readOk,
                                  !.docBefore = cacheFile.text,
                                  !.checkedAt = now, !.prevSave = lastSave,
                                  !.missed = {},
                                  !.attempts = @ + 1,
                                  !.geoCalled = FALSE, !.photoCalled = FALSE]
         IN  req' = [req EXCEPT ![r] =
               IF key \in DOMAIN cache /\ isCacheValid(cache[key], now)
               THEN LookupReturns(st, CachedResult(cache[key], balloon.lat, balloon.lon),
                                  "hit")
               ELSE [st EXCEPT !.pc = "geocode", !.geoCalled = TRUE, !.path = "lookup"]]
    /\ UNCHANGED <<now, ticks, cacheFile, lastSave, hist, guess, browser, accessKey>>

\* mutant: the photo service is asked whether or not a place name was found
geocodeResponse_NoNameCheck(r, responses) ==
    /\ req[r].pc = "geocode"
    /\ \E resp \in responses :
         LET locationName == reverseGeocode(resp)
         IN  req' = [req EXCEPT ![r] =
               IF ~accessKey
               THEN LookupReturns(req[r], NoPhoto, "nophoto")
               ELSE [req[r] EXCEPT !.locationName = locationName,
                                   !.photoCalled = TRUE, !.pc = "photo"]]
    /\ UNCHANGED <<now, ticks, cacheFile, lastSave, hist, guess, browser, accessKey>>

\* the reverse-geocoding service answers: no name returns null, a name goes on to
\* fetchUnsplashPhoto, which returns null at once when no access key is set
geocodeResponse(r, responses) ==
    /\ req[r].pc = "geocode"
    /\ \E resp \in responses :
         LET locationName == reverseGeocode(resp)
         IN  req' = [req EXCEPT ![r] =
               IF locationName = ""
               THEN LookupReturns(req[r], NoPhoto, "nogeo")
               ELSE IF ~accessKey
               THEN LookupReturns(req[r], NoPhoto, "nophoto")
               ELSE [req[r] EXCEPT !.locationName = locationName,
                                   !.photoCalled = TRUE, !.pc = "photo"]]
    /\ UNCHANGED <<now, ticks, cacheFile, lastSave, hist, guess, browser, accessKey>>

\* the photo service answers: no photo returns null; a photo is put in the loaded
\* mapping under the balloon id, the mapping is saved, and the result returned
photoResponse(r, responses) ==
    /\ req[r].pc = "photo"
    /\ \E resp \in responses, writeOk \in BOOLEAN :
       \E pick \in 0..(IF Len(resp.results) = 0 THEN 0 ELSE Len(resp.results) - 1) :
         LET balloon == Candidate(req[r])
             photo == fetchUnsplashPhoto(resp, pick)
             entry == CachedPhoto(balloon.id, photo, req[r].locationName, now)
             cache == [k \in DOMAIN req[r].cache \cup {CacheKey(balloon.id)} |->
                          IF k = CacheKey(balloon.id) THEN entry ELSE req[r].cache[k]]
         IN  IF ~photo.ok
             THEN /\ req' = [req EXCEPT ![r] = LookupReturns(req[r], NoPhoto, "nophoto")]
                  /\ UNCHANGED <<cacheFile, lastSave, hist>>
             ELSE /\ cacheFile' = saveCache(cacheFile, cache, writeOk)
                  /\ lastSave' = IF writeOk
                                 THEN [key |-> CacheKey(balloon.id), entry |-> entry]
                                 ELSE lastSave
                  /\ hist' = IF writeOk
                              THEN [writer |-> r, saved |-> cache,
                                    produced |-> hist.produced \cup
                                        {[key |-> CacheKey(balloon.id), entry |-> entry]}]
                              ELSE hist
                  /\ req' = [q \in AllReqs |->
                       IF q = r
                       THEN LookupReturns(req[r],
                                          FreshResult(photo, req[r].locationName,
                                                      balloon.lat, balloon.lon),
                                          IF writeOk THEN "fresh" ELSE "unsaved")
                       ELSE IF writeOk /\ req[q].pc \in {"geocode", "photo"}
                       THEN [req[q] EXCEPT !.missed = @ \cup
                                {[key |-> CacheKey(balloon.id), entry |-> entry]}]
                       ELSE req[q]]
    /\ UNCHANGED <<now, ticks, guess, browser, accessKey>>

\* the loop is over: no round throws, otherwise the rounds are returned
createGameRoundEnds(r) ==
    /\ req[r].pc = "loop"
    /\ ~LoopContinues(req[r])
    /\ req' = [req EXCEPT ![r] =
         IF Len(req[r].rounds) = 0 THEN Thrown(req[r], NoPhotosError)
         ELSE Returned(req[r], req[r].rounds)]
    /\ UNCHANGED <<now, ticks, cacheFile, lastSave, hist, guess, browser, accessKey>>

\* time passes
TickDeltas == {CACHE_DURATION - 1, CACHE_DURATION}

Tick ==
    /\ ticks < MaxTicks
    /\ \E d \in TickDeltas : now' = now + d
    /\ ticks' = ticks + 1
    /\ UNCHANGED <<cacheFile, lastSave, hist, guess, browser, accessKey, req>>

-----------------------------------------------------------------------------
(* What the outside world can answer *)

A(lat, lon) == ArrItem(<<Num(lat), Num(lon)>>)
A3(lat, lon, alt) == ArrItem(<<Num(lat), Num(lon), Num(alt)>>)

Tokyo == ObjItem([lat |-> Num(35), lon |-> Num(139), id |-> Num(1)])
Pole == ObjItem([latitude |-> Num(-90), longitude |-> Num(180), ID |-> Str("2")])

GamePayloads ==
    { ArrData(<<>>),
      OtherData,
      ArrData(<<NullItem, A3(45, -122, 1000), A(91, 0)>>),
      ArrData(<<A(45, -122), A(-91, 0), A(0, 0), ArrItem(<<Str("45"), Num(0)>>),
                A(90, -180)>>),
      ObjData(<<Tokyo, A(0, 181), Pole, Tokyo, PrimItem(Num(7)), Pole>>) }

GameOutcomes == {NotFound, TransportError} \cup {Ok(d) : d \in GamePayloads}

Addresses == { GeoAddress("Tokyo", "", "", "Japan", "", ""),
               GeoAddress("", "Tokyo", "", "", "", "") }

GeoResponses == {GeoError, GeoNoAddress} \cup Addresses

UnsplashPhoto(regular, userName) ==
    [hasUrls |-> TRUE, regular |-> regular, userName |-> userName]
BrokenPhoto == [hasUrls |-> FALSE, regular |-> "", userName |-> ""]

PhotoResponses ==
    { PhotoError, PhotoResults(<<>>),
      PhotoResults(<<BrokenPhoto, UnsplashPhoto("https://images.unsplash.com/1", "Ann")>>) }

\* the cache file a server starts with: none, or the document earlier requests left
EarlierEntry(id) ==
    CachedPhoto(id, [url |-> "https://images.unsplash.com/0",
                     attribution |-> Attribution("Zoe")], "Reykjavik", 0)

InitFiles ==
    { NoFile,
      saveCache(NoFile, [k \in {"0"} |-> EarlierEntry(Str(k))], TRUE),
      saveCache(NoFile, [k \in {"1", "2"} |-> EarlierEntry(Str(k))], TRUE) }

-----------------------------------------------------------------------------
(* calculateDistance and calculateScore. Angles are whole degrees; the values of *)
(* Math.sin, Math.cos and Math.exp are fixed-point numbers.                      *)

\* Math.sin of 0, 0.5, 1, ..., 90 degrees, in units of 1/10000
SinTable ==
    << 0, 87, 175, 262, 349, 436, 523, 610, 698, 785, 872, 958,
       1045, 1132, 1219, 1305, 1392, 1478, 1564, 1650, 1736, 1822, 1908, 1994,
       2079, 2164, 2250, 2334, 2419, 2504, 2588, 2672, 2756, 2840, 2924, 3007,
       3090, 3173, 3256, 3338, 3420, 3502, 3584, 3665, 3746, 3827, 3907, 3987,
       4067, 4147, 4226, 4305, 4384, 4462, 4540, 4617, 4695, 4772, 4848, 4924,
       5000, 5075, 5150, 5225, 5299, 5373, 5446, 5519, 5592, 5664, 5736, 5807,
       5878, 5948, 6018, 6088, 6157, 6225, 6293, 6361, 6428, 6494, 6561, 6626,
       6691, 6756, 6820, 6884, 6947, 7009, 7071, 7133, 7193, 7254, 7314, 7373,
       7431, 7490, 7547, 7604, 7660, 7716, 7771, 7826, 7880, 7934, 7986, 8039,
       8090, 8141, 8192, 8241, 8290, 8339, 8387, 8434, 8480, 8526, 8572, 8616,
       8660, 8704, 8746, 8788, 8829, 8870, 8910, 8949, 8988, 9026, 9063, 9100,
       9135, 9171, 9205, 9239, 9272, 9304, 9336, 9367, 9397, 9426, 9455, 9483,
       9511, 9537, 9563, 9588, 9613, 9636, 9659, 9681, 9703, 9724, 9744, 9763,
       9781, 9799, 9816, 9833, 9848, 9863, 9877, 9890, 9903, 9914, 9925, 9936,
       9945, 9954, 9962, 9969, 9976, 9981, 9986, 9990, 9994, 9997, 9998, 10000,
       10000 >>

\* Math.sin(u / 2 degrees) for any whole u, by reduction to the first quadrant
SinHalf(u) ==
    LET m == u % 720
    IN  IF m <= 180 THEN SinTable[m + 1]
        ELSE IF m <= 360 THEN SinTable[360 - m + 1]
        ELSE IF m <= 540 THEN 0 - SinTable[m - 360 + 1]
        ELSE 0 - SinTable[720 - m + 1]

\* Math.cos(toRad(lat))
CosDeg(lat) == SinHalf(180 - 2 * lat)

\* x * y for two numbers in units of 1/100000000, in the same unit
MulFix(x, y) ==
    LET xh == x \div 10000
        xl == x % 10000
        yh == y \div 10000
        yl == y % 10000
    IN  xh * yh + (xh * yl + xl * yh) \div 10000 + (xl * yl) \div 100000000

\* a = sin(dLat/2)^2 + cos(lat1) * cos(lat2) * sin(dLon/2)^2, in units of 1/100000000
Haversine(lat1, lat2, dLat, dLon) ==
    SinHalf(dLat) * SinHalf(dLat)
      + MulFix(CosDeg(lat1) * CosDeg(lat2), SinHalf(dLon) * SinHalf(dLon))

\* 2 * Math.atan2(Math.sqrt(a), Math.sqrt(1 - a)) in hundredths of a degree: the angle
\* whose half has the squared sine a, between two entries of the table in proportion
CentralAngle(a) ==
    LET sq(u) == SinTable[u + 1] * SinTable[u + 1]
        u == CHOOSE v \in 0..180 : sq(v) <= a /\ (v = 180 \/ a < sq(v + 1))
    IN  IF u = 180 THEN 18000
        ELSE 100 * u + (100 * (a - sq(u))) \div (sq(u + 1) - sq(u))

\* Earth's radius in km
R == 6371

\* R * c, in whole km, c in hundredths of a degree
ArcLength(c) == (((R * c) \div 1000) * 17453) \div 100000

\* mutant: the longitude difference is not halved
calculateDistance_NoHalfLon(lat1, lon1, lat2, lon2) ==
    ArcLength(CentralAngle(Haversine(lat1, lat2, lat2 - lat1, 2 * (lon2 - lon1))))

\* the server's calculateDistance: the haversine formula on lon2 - lon1 as it is
calculateDistance(lat1, lon1, lat2, lon2) ==
    ArcLength(CentralAngle(Haversine(lat1, lat2, lat2 - lat1, lon2 - lon1)))

\* Math.exp(-2^i / 2500) for i = 0..14, in units of 1/100000000
ExpTable ==
    << 99960008, 99920032, 99840128, 99680511, 99362044, 98728157, 97472490, 95008863, 90266841, 81481026, 66391576, 44078414, 19429066, 3774886, 142498 >>

\* the bits of n from bit i on select the factors of Math.exp(-n / 2500)
RECURSIVE ExpBits(_, _)
ExpBits(n, i) ==
    IF n = 0 THEN 100000000
    ELSE IF n % 2 = 1 THEN MulFix(ExpTable[i + 1], ExpBits(n \div 2, i + 1))
    ELSE ExpBits(n \div 2, i + 1)

\* Math.exp(-adjustedDistance / 2500), in units of 1/100000000
ExpDecay(adjustedDistance) == ExpBits(adjustedDistance, 0)

maxScore == 5000

perfectRadius == 500

\* Math.round(maxScore * e), e in units of 1/100000000
RoundScore(e) ==
    (maxScore * (e \div 10000) + (maxScore * (e % 10000)) \div 10000 + 5000) \div 10000

\* mutant: the decay starts at the photo, with no radius of full points
ScoreOfDistance_NoPlateau(distance) ==
    LET score == RoundScore(ExpDecay(distance))
    IN  IF score > 0 THEN score ELSE 0

\* mutant: the decay is linear and is not floored at 0
ScoreOfDistance_Linear(distance) ==
    IF distance <= perfectRadius THEN maxScore
    ELSE maxScore - (distance - perfectRadius) \div 2

\* calculateScore from the distance on
ScoreOfDistance(distance) ==
    IF distance <= perfectRadius THEN maxScore
    ELSE LET score == RoundScore(ExpDecay(distance - perfectRadius))
         IN  IF score > 0 THEN score ELSE 0

calculateScore(actualLat, actualLon, guessLat, guessLon) ==
    ScoreOfDistance(calculateDistance(actualLat, actualLon, guessLat, guessLon))

\* the browser's normalizeLongitude
RECURSIVE normalizeLongitude(_)
normalizeLongitude(lon) ==
    IF lon > 180 THEN normalizeLongitude(lon - 360)
    ELSE IF lon < -180 THEN normalizeLongitude(lon + 360)
    ELSE lon

\* lon2 - lon1 taken the shortest way around the earth
ShortestLon(lon1, lon2) ==
    LET dLon == normalizeLongitude(lon2) - normalizeLongitude(lon1)
    IN  IF dLon > 180 THEN dLon - 360
        ELSE IF dLon < -180 THEN dLon + 360
        ELSE dLon

\* the browser's calculateDistance
calculateDistanceClient(lat1, lon1, lat2, lon2) ==
    ArcLength(CentralAngle(Haversine(lat1, lat2, lat2 - lat1, ShortestLon(lon1, lon2))))

-----------------------------------------------------------------------------
(* A call of calculateScore, and POST /game/guess *)

\* no guess has been submitted
NoGuess ==
    [pc |-> "idle", op |-> "none",
     actualLat |-> Undef, actualLon |-> Undef, guessLat |-> Undef, guessLon |-> Undef,
     distance |-> 0, score |-> 0, status |-> 0]

\* calculateScore(actualLat, actualLon, guessLat, guessLon) is called and returns
CallCalculateScore(lats, lons) ==
    /\ guess.pc = "idle"
    /\ \E actualLat \in lats, guessLat \in lats, actualLon \in lons, guessLon \in lons :
         guess' = [NoGuess EXCEPT
                      !.pc = "done", !.op = "score",
                      !.actualLat = Num(actualLat), !.actualLon = Num(actualLon),
                      !.guessLat = Num(guessLat), !.guessLon = Num(guessLon),
                      !.distance = calculateDistance(actualLat, actualLon,
                                                     guessLat, guessLon),
                      !.score = calculateScore(actualLat, actualLon, guessLat, guessLon)]
    /\ UNCHANGED <<now, ticks, cacheFile, lastSave, hist, browser, accessKey, req>>

\* !actualLat || !actualLon || !guessLat || !guessLon
MissingCoordinates(body) ==
    \/ ~Truthy(body.actualLat) \/ ~Truthy(body.actualLon)
    \/ ~Truthy(body.guessLat) \/ ~Truthy(body.guessLon)

\* POST /api/game/guess: the body is checked and answered with 400, or the score is
\* calculated and the weather lookup awaited
gameGuess(bodies) ==
    /\ guess.pc = "idle"
    /\ \E body \in bodies :
         LET received == [NoGuess EXCEPT
                             !.op = "guess",
                             !.actualLat = body.actualLat, !.actualLon = body.actualLon,
                             !.guessLat = body.guessLat, !.guessLon = body.guessLon]
         IN  guess' =
               IF MissingCoordinates(body)
               THEN [received EXCEPT !.pc = "done", !.status = 400]
               ELSE [received EXCEPT
                        !.pc = "weather",
                        !.distance = calculateDistance(body.actualLat.n, body.actualLon.n,
                                                       body.guessLat.n, body.guessLon.n),
                        !.score = calculateScore(body.actualLat.n, body.actualLon.n,
                                                 body.guessLat.n, body.guessLon.n)]
    /\ UNCHANGED <<now, ticks, cacheFile, lastSave, hist, browser, accessKey, req>>

\* the ancillary weather lookup answers; the route sends the score
getWeatherData ==
    /\ guess.pc = "weather"
    /\ guess' = [guess EXCEPT !.pc = "done", !.status = 200]
    /\ UNCHANGED <<now, ticks, cacheFile, lastSave, hist, browser, accessKey, req>>

-----------------------------------------------------------------------------
(* The page: public/game.js *)

\* fetches of one kind the page has in flight at a time
MaxInFlight == 2

NaN == [t |-> "nan", n |-> 0, s |-> ""]

\* a + b of two JavaScript values: a number plus undefined or NaN is NaN
Plus(a, b) == IF a.t = "num" /\ b.t = "num" THEN Num(a.n + b.n) ELSE NaN

\* gameState.currentGuess: null, or the e.latlng of the latest click on the map
NoLatLng == [set |-> FALSE, lat |-> 0, lng |-> 0]
LatLng(lat, lng) == [set |-> TRUE, lat |-> lat, lng |-> lng]

\* the page as loaded: gameState, the landing screen, nothing in flight; credited and
\* strays are history: the scores added for each round of the game being played, and
\* those added from submissions of an earlier game
InitBrowser ==
    [gameState |-> [rounds |-> <<>>, currentRound |-> 0, totalScore |-> Num(0),
                    currentGuess |-> NoLatLng],
     screen |-> "landing-screen",
     guessBtnDisabled |-> TRUE,
     starts |-> 0,
     posts |-> <<>>,
     credited |-> <<>>,
     strays |-> <<>>]

showScreen(b, screenId) == [b EXCEPT !.screen = screenId]

showError(b) == showScreen(b, "error-screen")

\* a click on landing-btn or retry-btn: initGame up to its await of fetch
initGame ==
    /\ browser.screen \in {"landing-screen", "error-screen"}
    /\ browser.starts < MaxInFlight
    /\ browser' = [showScreen(browser, "loading") EXCEPT !.starts = @ + 1]
    /\ UNCHANGED <<now, ticks, cacheFile, lastSave, hist, guess, accessKey, req>>

\* the answer to GET /api/game/start arrives: initGame goes on after its await
initGameResumes(outcomes) ==
    /\ browser.starts > 0
    /\ \E o \in outcomes :
         browser' =
           IF o.k # "ok" \/ Len(o.rounds) = 0
           THEN [showError(browser) EXCEPT !.starts = @ - 1]
           ELSE [showScreen(browser, "rules-screen") EXCEPT
                    !.starts = @ - 1,
                    !.gameState.rounds = o.rounds,
                    !.gameState.currentRound = 0,
                    !.gameState.totalScore = Num(0),
                    !.posts = [n \in 1..Len(browser.posts) |->
                                  [browser.posts[n] EXCEPT !.stale = TRUE]],
                    !.credited = [n \in 1..Len(o.rounds) |-> <<>>],
                    !.strays = <<>>]
    /\ UNCHANGED <<now, ticks, cacheFile, lastSave, hist, guess, accessKey, req>>

\* startRound: the round's photo, a new map, no guess, the guess button disabled; with
\* no round at currentRound the read of round.photoUrl throws and nothing changes
startRound(b) ==
    IF b.gameState.currentRound < Len(b.gameState.rounds)
    THEN [showScreen(b, "game-screen") EXCEPT !.gameState.currentGuess = NoLatLng,
                                              !.guessBtnDisabled = TRUE]
    ELSE b

\* a click on start-game-btn
startGameClick ==
    /\ browser.screen = "rules-screen"
    /\ browser' = startRound(browser)
    /\ UNCHANGED <<now, ticks, cacheFile, lastSave, hist, guess, accessKey, req>>

\* a click on the map: the guess is set and the guess button enabled
mapClick(points) ==
    /\ browser.screen = "game-screen"
    /\ \E p \in points :
         browser' = [browser EXCEPT !.gameState.currentGuess = p,
                                    !.guessBtnDisabled = FALSE]
    /\ UNCHANGED <<now, ticks, cacheFile, lastSave, hist, guess, accessKey, req>>

\* the POST is in flight; the button stays as it is
GuessSent(b, post) == [b EXCEPT !.posts = Append(@, post)]

\* a click on guess-btn: submitGuess up to its await of fetch
submitGuess ==
    /\ browser.screen = "game-screen"
    /\ ~browser.guessBtnDisabled
    /\ Len(browser.posts) < MaxInFlight
    /\ LET gs == browser.gameState
       IN  browser' =
             IF ~gs.currentGuess.set THEN browser
             ELSE IF ~(gs.currentRound < Len(gs.rounds)) THEN showError(browser)
             ELSE LET round == gs.rounds[gs.currentRound + 1]
                  IN  GuessSent(browser,
                                [idx |-> gs.currentRound,
                                 stale |-> FALSE,
                                 body |-> [actualLat |-> round.balloonLat,
                                           actualLon |-> round.balloonLon,
                                           guessLat |-> Num(gs.currentGuess.lat),
                                           guessLon |-> Num(gs.currentGuess.lng)]])
    /\ UNCHANGED <<now, ticks, cacheFile, lastSave, hist, guess, accessKey, req>>

\* what POST /api/game/guess answers to a body: 400 without a score, or the score
\* and the weather
GuessResult(body) ==
    IF MissingCoordinates(body)
    THEN [status |-> 400, score |-> Undef, weather |-> FALSE]
    ELSE [status |-> 200,
          score |-> Num(calculateScore(body.actualLat.n, body.actualLon.n,
                                       body.guessLat.n, body.guessLon.n)),
          weather |-> TRUE]

\* showResult: reading currentGuess.lat of no guess, or locationName of no round,
\* throws into the catch of submitGuess; otherwise the result screen is shown
showResult(b) ==
    IF ~b.gameState.currentGuess.set
         \/ ~(b.gameState.currentRound < Len(b.gameState.rounds))
    THEN showError(b)
    ELSE showScreen(b, "result-screen")

\* the posts in flight without the n-th
Others(posts, n) == SubSeq(posts, 1, n - 1) \o SubSeq(posts, n + 1, Len(posts))

\* the answer to a POST arrives (or the fetch fails): submitGuess goes on after its
\* await, adds result.score to totalScore and shows the result
submitGuessResumes ==
    /\ Len(browser.posts) > 0
    /\ \E n \in 1..Len(browser.posts), delivered \in BOOLEAN :
         LET post == browser.posts[n]
             result == GuessResult(post.body)
             added == [browser EXCEPT
                          !.posts = Others(@, n),
                          !.gameState.totalScore = Plus(@, result.score),
                          !.credited = IF post.stale THEN @
                                       ELSE [@ EXCEPT ![post.idx + 1] =
                                                Append(@, result.score)],
                          !.strays = IF post.stale THEN Append(@, result.score) ELSE @]
         IN  browser' =
               IF ~delivered THEN showError([browser EXCEPT !.posts = Others(@, n)])
               ELSE IF ~result.weather THEN showError(added)
               ELSE showResult(added)
    /\ UNCHANGED <<now, ticks, cacheFile, lastSave, hist, guess, accessKey, req>>

\* a click on next-round-btn
nextRound ==
    /\ browser.screen = "result-screen"
    /\ LET b == [browser EXCEPT !.gameState.currentRound = @ + 1]
       IN  browser' =
             IF b.gameState.currentRound >= Len(b.gameState.rounds)
             THEN showScreen(b, "final-screen")
             ELSE startRound(b)
    /\ UNCHANGED <<now, ticks, cacheFile, lastSave, hist, guess, accessKey, req>>

\* a click on play-again-btn
playAgainClick ==
    /\ browser.screen = "final-screen"
    /\ browser' = showScreen(browser, "landing-screen")
    /\ UNCHANGED <<now, ticks, cacheFile, lastSave, hist, guess, accessKey, req>>

\* the latest save before the server started is the one that left the file it starts
\* with; no lookup has completed since the start
InitHist(file) ==
    [writer |-> 0, saved |-> loadCache(file, TRUE), produced |-> {}]

-----------------------------------------------------------------------------
(* Specifications *)

Init ==
    /\ now = 0
    /\ ticks = 0
    /\ cacheFile \in InitFiles
    /\ lastSave = NoSave
    /\ hist = InitHist(cacheFile)
    /\ guess = NoGuess
    /\ browser = InitBrowser
    /\ accessKey \in BOOLEAN
    /\ req = [r \in AllReqs |-> InitReq]

Next ==
    \/ \E r \in Reqs : gameStart(r)
    \/ \E r \in Reqs, n \in 1..MaxDirectRounds : createGameRound(r, n)
    \/ \E r \in Reqs : axiosGetSettles(r, GameOutcomes)
    \/ \E r \in Reqs : extractBalloons(r)
    \/ \E r \in Reqs : fetchBalloonData(r)
    \/ \E r \in Reqs : shuffleArray(r)
    \/ \E r \in Reqs : selectBalloons(r)
    \/ \E r \in Reqs : getPhotoForLocation(r)
    \/ \E r \in Reqs : geocodeResponse(r, GeoResponses)
    \/ \E r \in Reqs : photoResponse(r, PhotoResponses)
    \/ \E r \in Reqs : createGameRoundEnds(r)
    \/ Tick

Spec == Init /\ [][Next]_vars

-----------------------------------------------------------------------------
(* The feed reader alone: fetchBalloonData over a wide range of payloads *)

LatNames == {"lat", "latitude", "Lat", "Latitude"}
LonNames == {"lon", "lng", "longitude", "Lon", "Longitude"}

LatValues == {-91, -90, 0, 45, 90, 91}
LonValues == {-181, -180, 0, 20, 180, 181}

ObjPairs == {<<10, 20>>, <<0, 20>>, <<10, 0>>, <<0, 0>>, <<90, 180>>, <<-90, -180>>,
             <<91, 20>>, <<10, -181>>}

FeedItems ==
    {A(lat, lon) : lat \in LatValues, lon \in LonValues}
    \cup {A3(45, 20, 1000), A3(0, 0, 0), A3(-90, 180, 1000)}
    \cup {ArrItem(<<>>), ArrItem(<<Num(45)>>), ArrItem(<<Str("45"), Num(20)>>),
          ArrItem(<<Num(45), Null>>), ArrItem(<<Num(45), Num(20), Str("high")>>),
          ArrItem(<<Num(45), Num(20), Num(1000), Num(7)>>)}
    \cup {ObjItem((ln :> Num(pair[1])) @@ (gn :> Num(pair[2]))) :
             ln \in LatNames, gn \in LonNames, pair \in ObjPairs}
    \cup {ObjItem([lat |-> Str("10"), lon |-> Num(20)]),
          ObjItem([lat |-> Num(10)]),
          ObjItem([lat |-> Num(0), latitude |-> Num(10), lon |-> Num(20)]),
          ObjItem([lat |-> Num(10), lon |-> Num(20), id |-> Num(3)]),
          ObjItem([lat |-> Num(10), lon |-> Num(20), id |-> Num(0), ID |-> Str("4")]),
          ObjItem([lat |-> Num(10), lon |-> Num(20), balloon_id |-> Str("2"),
                   altitude |-> Num(1000)])}
    \cup {NullItem, PrimItem(Num(0)), PrimItem(Num(5)), PrimItem(Str("")),
          PrimItem(Str("balloon"))}

FeedPayloads ==
    {ArrData(<<item>>) : item \in FeedItems}
    \cup {ObjData(<<item>>) : item \in FeedItems}
    \cup GamePayloads
    \cup {ArrData(<<A(91, 0), ObjItem([lat |-> Num(0), lon |-> Num(20)]), A(0, 0)>>)}

FeedOutcomes == {NotFound, TransportError} \cup {Ok(d) : d \in FeedPayloads}

InitFeed ==
    /\ now = 0
    /\ ticks = 0
    /\ cacheFile = NoFile
    /\ lastSave = NoSave
    /\ hist = InitHist(cacheFile)
    /\ guess = NoGuess
    /\ browser = InitBrowser
    /\ accessKey = TRUE
    /\ req = [r \in AllReqs |-> InitReq]

NextFeed ==
    \/ \E r \in Reqs : CallFetchBalloonData(r)
    \/ \E r \in Reqs : axiosGetSettles(r, FeedOutcomes)
    \/ \E r \in Reqs : extractBalloons(r)
    \/ \E r \in Reqs : fetchBalloonData(r)

SpecFeed == InitFeed /\ [][NextFeed]_vars

\* every request to the feed is answered or fails: axios.get settles
FairSpecFeed == SpecFeed /\ WF_vars(NextFeed)

-----------------------------------------------------------------------------
(* Two game starts in flight at once: their steps interleave at every await *)

TwoPayload == ArrData(<<A(45, -122), A(10, 20)>>)

TwoOutcomes == {Ok(TwoPayload)}

TwoGeoResponses == {GeoError, GeoAddress("Tokyo", "", "", "Japan", "", "")}

TwoPhotoResponses ==
    { PhotoResults(<<UnsplashPhoto("https://images.unsplash.com/1", "Ann")>>) }

\* the server starts with no cache file, or with one whose entries are 24 h old or new
InitTwo ==
    /\ now \in {0, CACHE_DURATION}
    /\ ticks = 0
    /\ cacheFile \in {NoFile,
                      saveCache(NoFile, [k \in {"1", "2"} |-> EarlierEntry(Str(k))], TRUE)}
    /\ lastSave = NoSave
    /\ hist = InitHist(cacheFile)
    /\ guess = NoGuess
    /\ browser = InitBrowser
    /\ accessKey = TRUE
    /\ req = [r \in AllReqs |-> InitReq]

NextTwo ==
    \/ \E r \in AllReqs : gameStart(r)
    \/ \E r \in AllReqs : axiosGetSettles(r, TwoOutcomes)
    \/ \E r \in AllReqs : extractBalloons(r)
    \/ \E r \in AllReqs : fetchBalloonData(r)
    \/ \E r \in AllReqs : shuffleArray(r)
    \/ \E r \in AllReqs : selectBalloons(r)
    \/ \E r \in AllReqs : getPhotoForLocation(r)
    \/ \E r \in AllReqs : geocodeResponse(r, TwoGeoResponses)
    \/ \E r \in AllReqs : photoResponse(r, TwoPhotoResponses)
    \/ \E r \in AllReqs : createGameRoundEnds(r)

SpecTwo == InitTwo /\ [][NextTwo]_vars

-----------------------------------------------------------------------------
(* Scoring: calls of calculateScore and guess submissions *)

ScoreLats == {-90, -45, 0, 25, 45, 90}
ScoreLons == {-180, -179, 0, 4, 5, 90, 179, 180}

\* the coordinates a request body carries: absent, or a number
BodyLats == {Undef, Num(0), Num(45)}
BodyLons == {Undef, Num(0), Num(179), Num(-179)}

GuessBodies ==
    [actualLat : BodyLats, actualLon : BodyLons, guessLat : BodyLats, guessLon : BodyLons]

InitGuess ==
    /\ now = 0
    /\ ticks = 0
    /\ cacheFile = NoFile
    /\ lastSave = NoSave
    /\ hist = InitHist(cacheFile)
    /\ guess = NoGuess
    /\ browser = InitBrowser
    /\ accessKey = TRUE
    /\ req = [r \in AllReqs |-> InitReq]

NextGuess ==
    \/ CallCalculateScore(ScoreLats, ScoreLons)
    \/ gameGuess(GuessBodies)
    \/ getWeatherData

SpecGuess == InitGuess /\ [][NextGuess]_vars

-----------------------------------------------------------------------------
(* shuffleArray alone, on every array of up to MaxShuffleLen elements *)

ShuffleElements ==
    {extractCoordinates(A(lat, 0), Str(IndexStr(lat))) : lat \in 0..2}

ShuffleInputs ==
    UNION {[1..n -> ShuffleElements] : n \in 0..MaxShuffleLen}

NextShuffle ==
    \/ \E r \in Reqs : CallShuffleArray(r, ShuffleInputs)
    \/ \E r \in Reqs : shuffleArray(r)
    \/ \E r \in Reqs : shuffleArrayReturns(r)

SpecShuffle == InitGuess /\ [][NextShuffle]_vars

-----------------------------------------------------------------------------
(* One page playing games of one and of two rounds *)

\* a round as createGameRound returns it, from a cached photo
SessionRound(lat, lon, index) ==
    LET balloon == extractCoordinates(A(lat, lon), Str(IndexStr(index)))
    IN  GameRound(balloon,
                  CachedResult(EarlierEntry(balloon.id), balloon.lat, balloon.lon))

SessionGames ==
    { <<SessionRound(25, 5, 0)>>,
      <<SessionRound(25, 5, 0), SessionRound(45, 179, 1)>> }

\* what GET /api/game/start can answer: rounds, status 500, or no answer at all
StartOutcomes ==
    {[k |-> "reject", rounds |-> <<>>], [k |-> "500", rounds |-> <<>>]}
      \cup {[k |-> "ok", rounds |-> rounds] : rounds \in SessionGames}

\* where the player clicks on the map
MapClicks == {LatLng(25, 5), LatLng(-45, -179), LatLng(0, 5)}

NextSession ==
    \/ initGame
    \/ initGameResumes(StartOutcomes)
    \/ startGameClick
    \/ mapClick(MapClicks)
    \/ submitGuess
    \/ submitGuessResumes
    \/ nextRound
    \/ playAgainClick

SpecSession == InitGuess /\ [][NextSession]_vars

-----------------------------------------------------------------------------
(* Properties of round assembly *)

Min(a, b) == IF a < b THEN a ELSE b

\* a call of createGameRound that has ended
Ended(st) == st.op = "create" /\ st.pc = "done"

\* C1: createGameRound throws the 'no data' error when fetchBalloonData returned no
\* observation, and the different 'no photos' error when it returned some and every
\* attempted lookup returned null; in neither case are rounds returned.
C1_FatalErrors ==
    \A r \in Reqs :
        LET st == req[r]
        IN  Ended(st) =>
              /\ NoDataError # NoPhotosError
              /\ Len(st.balloons) = 0 =>
                     st.outcome = [kind |-> "error", error |-> NoDataError]
              /\ (Len(st.balloons) > 0 /\ st.found = 0) =>
                     /\ st.outcome = [kind |-> "error", error |-> NoPhotosError]
                     /\ st.attempts = Len(st.selected)
                     /\ st.attempts >= 1
              /\ (Len(st.balloons) = 0 \/ st.found = 0) =>
                     /\ st.outcome.kind # "rounds"
                     /\ st.response.rounds = <<>>
                     /\ st.response.status # 200

\* a feed with observations, three candidates tried, every one a miss: 'no photos'
C1_Witness ==
    \E r \in Reqs :
        /\ Ended(req[r])
        /\ req[r].outcome.error = NoPhotosError
        /\ req[r].attempts = 3
        /\ req[r].path = "nophoto"

\* C2: a call of createGameRound(n), n >= 1, that returns normally returns at least 1
\* and at most n rounds, one per lookup that returned a photo; it returns fewer than
\* n only after all of the first min(3n, feed size) candidates have been tried.
C2_RoundCount ==
    \A r \in Reqs :
        LET st == req[r]
        IN  (Ended(st) /\ st.outcome.kind = "rounds") =>
              /\ st.numRounds >= 1
              /\ Len(st.rounds) >= 1
              /\ Len(st.rounds) <= st.numRounds
              /\ Len(st.rounds) = st.found
              /\ Len(st.rounds) < st.numRounds =>
                     st.attempts = Min(3 * st.numRounds, Len(st.balloons))
              /\ st.viaRoute => st.response = [status |-> 200, rounds |-> st.rounds]

\* createGameRound(1) on a feed of four: three candidates are cut, two miss, the
\* third yields the one round
C2_Witness ==
    \E r \in Reqs :
        /\ Ended(req[r])
        /\ req[r].outcome.kind = "rounds"
        /\ req[r].numRounds = 1
        /\ Len(req[r].balloons) = 4
        /\ req[r].attempts = 3
        /\ Len(req[r].rounds) = 1

\* C3: every successful game-start response carries exactly 5 rounds.
C3_FiveRounds ==
    \A r \in Reqs :
        req[r].response.status = 200 => Len(req[r].response.rounds) = RouteRounds

-----------------------------------------------------------------------------
(* Properties of the photo cache *)

\* the document text has a member under key / that member
DocHas(text, key) == \E n \in 1..Len(text) : text[n].key = key
DocEntry(text, key) == text[CHOOSE n \in 1..Len(text) : text[n].key = key]

\* the candidate of the latest call of getPhotoForLocation, and its cache key
LookedUp(st) == st.selected[st.attempts]
LookedUpKey(st) == CacheKey(LookedUp(st).id)

\* the latest lookup read a document holding an entry for its balloon id that was
\* less than 24 h old when it was checked
ValidEntryRead(st) ==
    /\ st.attempts >= 1
    /\ st.loaded
    /\ DocHas(st.docBefore, LookedUpKey(st))
    /\ st.checkedAt - DocEntry(st.docBefore, LookedUpKey(st)).timestamp < CACHE_DURATION

\* C4: when the cache read by getPhotoForLocation holds an entry for the balloon id
\* with now - timestamp < 24h, the lookup returns that entry's photoUrl, attribution
\* and locationName, calls neither the reverse-geocoding nor the photo service, and
\* leaves the cache document unchanged.
C4_CacheHit ==
    \A r \in Reqs :
        LET st == req[r]
        IN  ValidEntryRead(st) =>
              LET cached == DocEntry(st.docBefore, LookedUpKey(st))
              IN  /\ st.path = "hit"
                  /\ st.photo.ok
                  /\ st.photo.url = cached.photoUrl
                  /\ st.photo.attribution = cached.photoAttribution
                  /\ st.photo.locationName = cached.locationName
                  /\ ~st.geoCalled
                  /\ ~st.photoCalled
                  /\ cacheFile.exists
                  /\ cacheFile.text = st.docBefore

\* an entry one millisecond short of 24 h old is served from the cache
C4_Witness ==
    \E r \in Reqs :
        /\ ValidEntryRead(req[r])
        /\ req[r].path = "hit"
        /\ req[r].checkedAt
             - DocEntry(req[r].docBefore, LookedUpKey(req[r])).timestamp
             = CACHE_DURATION - 1

\* C5: the entry handed to the latest successful save is what loading the document
\* yields under its key; and a lookup for that balloon id that loads the document
\* less than 24 h after the entry's timestamp, with no other save in between,
\* returns the photoUrl, attribution and locationName that were written.
C5_RoundTrip ==
    /\ lastSave # NoSave =>
          /\ cacheFile.exists
          /\ lastSave.key \in DOMAIN loadCache(cacheFile, TRUE)
          /\ loadCache(cacheFile, TRUE)[lastSave.key] = lastSave.entry
    /\ \A r \in Reqs :
          LET st == req[r]
          IN  ( /\ st.attempts >= 1
                /\ st.loaded
                /\ st.prevSave # NoSave
                /\ st.prevSave.key = LookedUpKey(st)
                /\ st.checkedAt - st.prevSave.entry.timestamp < CACHE_DURATION ) =>
                    /\ st.path = "hit"
                    /\ st.photo.url = st.prevSave.entry.photoUrl
                    /\ st.photo.attribution = st.prevSave.entry.photoAttribution
                    /\ st.photo.locationName = st.prevSave.entry.locationName

\* an entry written by this call chain is read back by a later lookup of the same id,
\* one millisecond short of 24 h later
C5_Witness ==
    \E r \in Reqs :
        /\ req[r].attempts >= 2
        /\ req[r].loaded
        /\ req[r].prevSave # NoSave
        /\ req[r].prevSave.key = LookedUpKey(req[r])
        /\ req[r].checkedAt - req[r].prevSave.entry.timestamp = CACHE_DURATION - 1
        /\ req[r].path = "hit"

\* the latest lookup has returned (or the call has not looked anything up yet)
LookupOver(st) == st.pc \in {"loop", "done"}

\* C6: a cached entry is treated as valid exactly while now - timestamp < 24h; an
\* expired entry stays in the document unchanged until a successful lookup for the
\* same id overwrites it with a new timestamp, and a lookup that misses leaves it.
C6_ExpiredKept ==
    \A r \in Reqs :
        LET st == req[r]
        IN  st.attempts >= 1 =>
              /\ (st.loaded /\ DocHas(st.docBefore, LookedUpKey(st))) =>
                    (st.path = "hit" <=>
                       st.checkedAt - DocEntry(st.docBefore, LookedUpKey(st)).timestamp
                         < CACHE_DURATION)
              /\ \A n \in 1..Len(st.docBefore) :
                    LET old == st.docBefore[n]
                    IN  st.checkedAt - old.timestamp >= CACHE_DURATION =>
                          /\ DocHas(cacheFile.text, old.key)
                          /\ \/ DocEntry(cacheFile.text, old.key) = old
                             \/ /\ old.key = LookedUpKey(st)
                                /\ LookupOver(st)
                                /\ st.path = "fresh"
                                /\ DocEntry(cacheFile.text, old.key).timestamp
                                     > old.timestamp

\* the same, for the lookups whose load of the document did not fail
C6_ExpiredKeptWhenLoaded ==
    \A r \in Reqs :
        LET st == req[r]
        IN  (st.attempts >= 1 /\ st.loaded) =>
              /\ DocHas(st.docBefore, LookedUpKey(st)) =>
                    (st.path = "hit" <=>
                       st.checkedAt - DocEntry(st.docBefore, LookedUpKey(st)).timestamp
                         < CACHE_DURATION)
              /\ \A n \in 1..Len(st.docBefore) :
                    LET old == st.docBefore[n]
                    IN  st.checkedAt - old.timestamp >= CACHE_DURATION =>
                          /\ DocHas(cacheFile.text, old.key)
                          /\ \/ DocEntry(cacheFile.text, old.key) = old
                             \/ /\ old.key = LookedUpKey(st)
                                /\ LookupOver(st)
                                /\ st.path = "fresh"
                                /\ DocEntry(cacheFile.text, old.key).timestamp
                                     > old.timestamp

-----------------------------------------------------------------------------
(* Properties of the feed reader *)

\* C7: fetchBalloonData requests the hourly files in ascending order 00, 01, ..., each
\* at most once; the first hour whose payload yields a valid observation is the last
\* one requested, and its observations are what is returned.
C7_HoursInOrder ==
    \A r \in Reqs :
        LET st == req[r]
        IN  st.op = "fetch" =>
              /\ Len(st.requested) <= HOURS
              /\ \A n \in 1..Len(st.requested) : st.requested[n] = n - 1
              /\ Len(st.yields) <= 1
              /\ Len(st.yields) = 1 => st.yields[1] = st.requested[Len(st.requested)]
              /\ (st.fetchDone /\ Len(st.yields) = 1) =>
                    /\ st.data.k = "ok"
                    /\ st.balloons = PayloadBalloons(st.data.data)
                    /\ Len(st.balloons) >= 1
              /\ (st.fetchDone /\ Len(st.yields) = 0) =>
                    /\ st.balloons = <<>>
                    /\ Len(st.requested) = HOURS

\* 00, 01 and 02 yield nothing, 03 yields: its balloons are returned after 4 requests
C7_Witness ==
    \E r \in Reqs :
        /\ req[r].fetchDone
        /\ req[r].requested = <<0, 1, 2, 3>>
        /\ req[r].yields = <<3>>
        /\ Len(req[r].balloons) = 3

\* what C8 says of every state
C8_Safe ==
    \A r \in Reqs :
        LET st == req[r]
        IN  st.op = "fetch" =>
              /\ Len(st.requested) <= HOURS
              /\ st.outcome.kind # "error"
              /\ st.fetchDone => (st.outcome.kind = "balloons" /\ st.pc = "done")
              /\ st.fetchDone => (st.balloons = <<>> <=> st.yields = <<>>)

LatCarried(item) ==
    IF item.k = "arr" THEN {At(item.e, 0)}
    ELSE IF item.k = "obj" THEN {Field(item, n) : n \in LatNames} \ {Undef}
    ELSE {}
LonCarried(item) ==
    IF item.k = "arr" THEN {At(item.e, 1)}
    ELSE IF item.k = "obj" THEN {Field(item, n) : n \in LonNames} \ {Undef}
    ELSE {}

ValidLat(v) == v.t = "num" /\ v.n >= -90 /\ v.n <= 90
ValidLon(v) == v.t = "num" /\ v.n >= -180 /\ v.n <= 180

HasValidPair(item) ==
    /\ \E v \in LatCarried(item) : ValidLat(v)
    /\ \E v \in LonCarried(item) : ValidLon(v)

\* the payload of the hour has been extracted into balloons
Extracted(st) ==
    /\ st.pc \in {"decide", "done"}
    /\ st.data.k = "ok"

\* C9: every observation of fetchBalloonData, and so every candidate and every round
\* made of one, has a numeric latitude in [-90, 90] and a numeric longitude in
\* [-180, 180] that an entry of the payload carries; entries whose latitude or
\* longitude is non-numeric or out of range produce no observation.
C9_ObservationsInRange ==
    \A r \in Reqs :
        LET st == req[r]
        IN  /\ \A n \in 1..Len(st.balloons) :
                  ValidLat(st.balloons[n].lat) /\ ValidLon(st.balloons[n].lon)
            /\ \A n \in 1..Len(st.selected) :
                  ValidLat(st.selected[n].lat) /\ ValidLon(st.selected[n].lon)
            /\ \A n \in 1..Len(st.rounds) :
                  ValidLat(st.rounds[n].balloonLat) /\ ValidLon(st.rounds[n].balloonLon)
            /\ Extracted(st) =>
                  LET items == st.data.data.items
                  IN  /\ Len(st.balloons)
                           <= Cardinality({n \in 1..Len(items) : HasValidPair(items[n])})
                      /\ \A n \in 1..Len(st.balloons) :
                            \E m \in 1..Len(items) :
                                /\ HasValidPair(items[m])
                                /\ st.balloons[n].lat \in LatCarried(items[m])
                                /\ st.balloons[n].lon \in LonCarried(items[m])

\* of three entries, one with latitude 91 and one the code passes over, one is kept
C9_Witness ==
    \E r \in Reqs :
        /\ req[r].pc = "done"
        /\ req[r].data.k = "ok"
        /\ Len(req[r].data.data.items) = 3
        /\ \E m \in 1..3 : ~HasValidPair(req[r].data.data.items[m])
        /\ Len(req[r].balloons) = 1

\* an entry that carries exactly one latitude and one longitude, both valid: a list
\* of 2 or 3 elements, or an object with one latitude name and one longitude name
ClearlyValid(item) ==
    /\ item.k \in {"arr", "obj"}
    /\ item.k = "arr" => Len(item.e) \in {2, 3}
    /\ Cardinality(LatCarried(item)) = 1
    /\ Cardinality(LonCarried(item)) = 1
    /\ item.k = "obj" => Cardinality({n \in LatNames \cup LonNames : n \in DOMAIN item.f}) = 2
    /\ HasValidPair(item)

Yielded(st, item) ==
    \E n \in 1..Len(st.balloons) :
        /\ st.balloons[n].lat \in LatCarried(item)
        /\ st.balloons[n].lon \in LonCarried(item)

\* C10: every feed entry carrying a numeric latitude in [-90, 90] and a numeric
\* longitude in [-180, 180], as a list or as an object under any accepted field
\* name, yields an observation with those values, the boundary values and 0 included.
C10_ValidEntriesYield ==
    \A r \in Reqs :
        LET st == req[r]
        IN  Extracted(st) =>
              \A m \in 1..Len(st.data.data.items) :
                  ClearlyValid(st.data.data.items[m]) => Yielded(st, st.data.data.items[m])

\* the same, for the entries whose latitude and longitude are not 0, and for lists
C10_NonZeroEntriesYield ==
    \A r \in Reqs :
        LET st == req[r]
        IN  Extracted(st) =>
              \A m \in 1..Len(st.data.data.items) :
                  LET item == st.data.data.items[m]
                  IN  ( /\ ClearlyValid(item)
                        /\ \/ item.k = "arr"
                           \/ \A v \in LatCarried(item) \cup LonCarried(item) : v.n # 0 )
                        => Yielded(st, item)

-----------------------------------------------------------------------------
(* Properties of concurrent game starts and of failed saves *)

\* the entry a member of the document text holds
MemberEntry(m) ==
    [balloonId |-> m.balloonId, photoUrl |-> m.photoUrl,
     photoAttribution |-> m.photoAttribution, locationName |-> m.locationName,
     timestamp |-> m.timestamp]

\* the entries the cache file can hold when the server starts
StartEntries ==
    UNION {{[key |-> file.text[n].key, entry |-> MemberEntry(file.text[n])] :
               n \in 1..Len(file.text)} : file \in InitFiles}

LoadedMapping(st) == IF st.loaded THEN Parse(st.docBefore) ELSE EmptyCache

\* the latest save was made by request b at the end of its latest lookup
LastWriter(b) ==
    /\ hist.writer = b
    /\ req[b].attempts >= 1
    /\ req[b].pc \in {"loop", "done"}
    /\ req[b].path = "fresh"

\* C12: when request A persists an entry for balloon a and request B, which loaded
\* the document before that save, then persists its entry for another balloon b, the
\* document holds under a what B had loaded and not what A wrote: A's update is lost
\* (last writer wins).
C12_LastWriterWins ==
    \A b \in AllReqs :
        LastWriter(b) =>
            \A m \in req[b].missed :
                m.key # CacheKey(req[b].selected[req[b].attempts].id) =>
                    /\ DocHas(cacheFile.text, m.key)
                          <=> m.key \in DOMAIN LoadedMapping(req[b])
                    /\ DocHas(cacheFile.text, m.key) =>
                          MemberEntry(DocEntry(cacheFile.text, m.key))
                             = LoadedMapping(req[b])[m.key]

\* A's entry for balloon a was persisted, B saved its entry for b over it, and the
\* document has nothing under a
C12_Witness ==
    \E b \in AllReqs :
        /\ LastWriter(b)
        /\ \E m \in req[b].missed :
              /\ m.key # CacheKey(req[b].selected[req[b].attempts].id)
              /\ m \in hist.produced
              /\ ~DocHas(cacheFile.text, m.key)

\* the photos the photo service can answer with, as fetchUnsplashPhoto returns them
FetchedPhotos ==
    {[url |-> resp.results[n].regular,
      attribution |-> Attribution(resp.results[n].userName)] :
        resp \in {x \in PhotoResponses : Len(x.results) = 2}, n \in 1..2}

-----------------------------------------------------------------------------
(* Properties of scoring *)

\* calculateScore has returned a score for the coordinates in guess
Scored == guess.pc = "done" /\ (guess.op = "score" \/ guess.status = 200)

\* C14: for all valid coordinate pairs whose great-circle distance is at most 500 km,
\* exactly 500 km included, calculateScore returns exactly 5000.
C14_FullScoreWithin500 ==
    (Scored /\ guess.distance <= 500) => guess.score = 5000

\* two different points exactly 500 km apart score 5000
C14_Witness ==
    /\ Scored
    /\ guess.distance = 500
    /\ guess.actualLon # guess.guessLon
    /\ guess.score = 5000

\* distances up to half the circumference of the earth, 335 km apart, and those
\* around the perfect radius
SampleDistances == {d \in 0..20100 : d % 335 = 0} \cup {499, 500, 501, 502}

\* C15: beyond 500 km, calculateScore is monotonically non-increasing in the distance:
\* for 500 < d1 <= d2 the score at d2 is at most the score at d1; and every score is
\* an integer in [0, 5000].
C15_ScoreMonotone ==
    Scored =>
        /\ guess.score \in 0..5000
        /\ guess.score = ScoreOfDistance(guess.distance)
        /\ \A d \in SampleDistances :
              /\ ScoreOfDistance(d) \in 0..5000
              /\ (500 < guess.distance /\ guess.distance <= d) =>
                     ScoreOfDistance(d) <= guess.score
              /\ (500 < d /\ d <= guess.distance) =>
                     guess.score <= ScoreOfDistance(d)

\* antipodal points: the largest distance there is scores little, and not below 0
C15_Witness ==
    /\ Scored
    /\ guess.distance > 20000
    /\ guess.score < ScoreOfDistance(10050)
    /\ guess.score >= 0

\* C16: the distance used for scoring follows the shortest wraparound path in
\* longitude: for points whose longitudes differ by more than 180 degrees the server's
\* distance equals the one computed with the difference reduced into [-180, 180], and
\* actual = (0, 179), guess = (0, -179) are about 222 km apart, not about 39,800 km.
C16_ShortestWraparound ==
    Scored =>
        /\ ShortestLon(guess.actualLon.n, guess.guessLon.n) \in -180..180
        /\ guess.distance = calculateDistanceClient(guess.actualLat.n, guess.actualLon.n,
                                                    guess.guessLat.n, guess.guessLon.n)
        /\ ( /\ guess.actualLat = Num(0) /\ guess.actualLon = Num(179)
             /\ guess.guessLat = Num(0) /\ guess.guessLon = Num(-179) ) =>
                guess.distance \in 221..223

\* the guess of the example, across the antimeridian
C16_Witness ==
    /\ Scored
    /\ guess.actualLon.n - guess.guessLon.n = 358
    /\ guess.actualLat = Num(0) /\ guess.guessLat = Num(0)
    /\ guess.distance = 222
    /\ guess.score = 5000

\* a coordinate that is a number in the valid range
ValidBodyLat(v) == v.t = "num" /\ v.n >= -90 /\ v.n <= 90
ValidBodyLon(v) == v.t = "num" /\ v.n >= -180 /\ v.n <= 180

\* C18: the guess-submission handler accepts every request that supplies the four
\* coordinates as numbers in valid range, 0 included, and answers with a score in
\* [0, 5000]; it rejects a request as missing coordinates only when one is absent.
C18_GuessAccepted ==
    (guess.op = "guess" /\ guess.pc = "done") =>
        /\ ( /\ ValidBodyLat(guess.actualLat) /\ ValidBodyLon(guess.actualLon)
             /\ ValidBodyLat(guess.guessLat) /\ ValidBodyLon(guess.guessLon) ) =>
                (guess.status = 200 /\ guess.score \in 0..5000)
        /\ guess.status = 400 =>
                Undef \in {guess.actualLat, guess.actualLon, guess.guessLat, guess.guessLon}

\* the same, for the requests none of whose coordinates is 0
C18_NonZeroGuessAccepted ==
    (guess.op = "guess" /\ guess.pc = "done"
       /\ Num(0) \notin {guess.actualLat, guess.actualLon, guess.guessLat, guess.guessLon}) =>
        /\ ( /\ ValidBodyLat(guess.actualLat) /\ ValidBodyLon(guess.actualLon)
             /\ ValidBodyLat(guess.guessLat) /\ ValidBodyLon(guess.guessLon) ) =>
                (guess.status = 200 /\ guess.score \in 0..5000)
        /\ guess.status = 400 =>
                Undef \in {guess.actualLat, guess.actualLon, guess.guessLat, guess.guessLon}

-----------------------------------------------------------------------------
(* Properties of shuffleArray *)

\* how often x occurs in the sequence a
Count(a, x) == Cardinality({n \in 1..Len(a) : a[n] = x})

\* b is a permutation of a
IsPermutation(a, b) ==
    /\ Len(a) = Len(b)
    /\ \A n \in 1..Len(a) : Count(a, a[n]) = Count(b, a[n])

\* in every state of a call of shuffleArray the copy is a permutation of the input
C17_Permuted ==
    \A r \in Reqs :
        req[r].op = "shuffle" =>
            /\ IsPermutation(req[r].balloons, req[r].shuffled)
            /\ req[r].pc = "done" => req[r].si <= 0

\* one step of the loop swaps position i with a position in [0, i], and leaves the
\* input alone
C17_Step ==
    \A r \in Reqs :
        (req[r].op = "shuffle" /\ req'[r].op = "shuffle") =>
            /\ req'[r].balloons = req[r].balloons
            /\ req'[r].shuffled # req[r].shuffled => req'[r].si = req[r].si - 1
            /\ req'[r].si # req[r].si =>
                  /\ req'[r].si = req[r].si - 1
                  /\ req[r].si >= 1
                  /\ \E j \in 0..req[r].si :
                        req'[r].shuffled = Swap(req[r].shuffled, req[r].si, j)

\* C17: shuffleArray returns a permutation of its input for every input sequence, the
\* empty and the single-element sequence included: same length, same multiset of
\* elements; every swap index drawn at step i lies in [0, i]; the input sequence
\* itself is not modified.
C17_ShufflePermutes ==
    /\ []C17_Permuted
    /\ [][C17_Step]_vars
    /\ [](\A max \in 2..(MaxShuffleLen + 1) :
             \A bytes \in [1..BytesNeeded(max) -> 0..255] :
                 secureRandomInt(max, bytes) \in 0..(max - 1))

\* three different elements returned in another order than they came in
C17_Witness ==
    \E r \in Reqs :
        /\ req[r].op = "shuffle"
        /\ req[r].pc = "done"
        /\ Cardinality({req[r].balloons[n] : n \in 1..Len(req[r].balloons)}) = 3
        /\ req[r].shuffled # req[r].balloons
        /\ req[r].shuffled[1] = req[r].balloons[3]

-----------------------------------------------------------------------------
(* Properties of the rounds and of the attempts of one call *)

\* every round so far has distance 0 and the photo at the balloon's coordinates
C19_RoundsAtBalloon ==
    \A r \in Reqs :
        \A n \in 1..Len(req[r].rounds) :
            LET round == req[r].rounds[n]
            IN  /\ round.distanceKm = 0
                /\ round.photoLat = round.balloonLat
                /\ round.photoLon = round.balloonLon
                /\ round.photoUrl # ""
                /\ round.locationName # ""

\* a round is pushed for the candidate whose lookup has just returned, on the cache-hit
\* path and on the fresh-lookup path, and the rounds before it stay
C19_RoundPushed ==
    \A r \in Reqs :
        (req[r].op = "create" /\ req'[r].rounds # req[r].rounds /\ req'[r].pc # "idle") =>
            LET round == req'[r].rounds[Len(req'[r].rounds)]
                balloon == Candidate(req[r])
            IN  /\ req[r].pc \in {"loop", "photo"}
                /\ req'[r].path \in {"hit", "fresh", "unsaved"}
                /\ req[r].pc = "loop" <=> req'[r].path = "hit"
                /\ req'[r].rounds = Append(req[r].rounds, round)
                /\ round.balloonId = balloon.id
                /\ round.balloonLat = balloon.lat
                /\ round.balloonLon = balloon.lon
                /\ balloon = req[r].selected[req'[r].attempts]
                /\ \E n \in 1..Len(req[r].balloons) : req[r].balloons[n] = balloon

\* C19: every round produced by createGameRound, on the cache-hit path and on the
\* fresh-lookup path alike, has distanceKm = 0, photoLat = balloonLat and photoLon =
\* balloonLon, and balloonId, balloonLat and balloonLon equal to those of the
\* observation it was built from.
C19_RoundFields ==
    /\ []C19_RoundsAtBalloon
    /\ [][C19_RoundPushed]_vars

\* a call that returned two rounds, the last from the cache, an earlier one looked up
\* and saved
C19_Witness ==
    \E r \in Reqs :
        /\ Ended(req[r])
        /\ Len(req[r].rounds) = 2
        /\ req[r].path = "hit"
        /\ lastSave # NoSave
        /\ req[r].rounds[1].balloonLat # req[r].rounds[1].balloonLon

\* the attempts so far are on the positions 0, 1, ... of the permutation, at most
\* min(3n, feed size) of them
C20_AttemptsBounded ==
    \A r \in Reqs :
        LET st == req[r]
        IN  (st.op = "create" /\ st.pc \in {"loop", "geocode", "photo", "done"}
               /\ st.outcome.error # NoDataError) =>
                /\ st.attempts <= Min(3 * st.numRounds, Len(st.balloons))
                /\ Len(st.selected) = Min(3 * st.numRounds, Len(st.balloons))
                /\ st.attempts = IF st.pc \in {"geocode", "photo"} THEN st.i + 1 ELSE st.i
                /\ st.found <= st.numRounds
                /\ Len(st.rounds) = st.found

\* an attempt starts only when no other is under way and fewer than n rounds are
\* collected, on the position after the one tried last; positions are not revisited
C20_AttemptStarts ==
    \A r \in Reqs :
        (req[r].op = "create" /\ req'[r].op = "create") =>
            /\ req'[r].i >= req[r].i \/ req[r].pc = "shuffle"
            /\ req'[r].attempts # req[r].attempts =>
                  /\ req[r].pc = "loop"
                  /\ req'[r].attempts = req[r].attempts + 1
                  /\ req[r].i = req[r].attempts
                  /\ Len(req[r].rounds) < req[r].numRounds
                  /\ req[r].i < Len(req[r].selected)
            /\ (req[r].pc \in {"geocode", "photo"} /\ req'[r].pc = "loop"
                   /\ ~req'[r].photo.ok) =>
                  /\ req'[r].i = req[r].i + 1
                  /\ req'[r].rounds = req[r].rounds

\* C20: one call of createGameRound(n) makes at most min(3n, feed size)
\* photo-resolution attempts, each on a different position of the permutation and
\* strictly one after another; a candidate that missed is never retried, and no
\* attempt is started once n rounds have been collected.
C20_AttemptsInOrder ==
    /\ []C20_AttemptsBounded
    /\ [][C20_AttemptStarts]_vars

\* createGameRound(1) on a feed of four: the three candidates all missed, the fourth
\* balloon was never tried
C20_Witness ==
    \E r \in Reqs :
        /\ Ended(req[r])
        /\ req[r].numRounds = 1
        /\ Len(req[r].balloons) = 4
        /\ req[r].attempts = 3
        /\ req[r].found = 0

-----------------------------------------------------------------------------
(* Properties of the order of the rounds *)

\* the round was built from the candidate
BuiltFrom(round, balloon) ==
    /\ round.balloonId = balloon.id
    /\ round.balloonLat = balloon.lat
    /\ round.balloonLon = balloon.lon

\* rounds[k..] can be matched, in order, to candidates at increasing positions from n on
RECURSIVE Subsequence(_, _, _, _)
Subsequence(rounds, k, candidates, n) ==
    IF k > Len(rounds) THEN TRUE
    ELSE IF n > Len(candidates) THEN FALSE
    ELSE IF BuiltFrom(rounds[k], candidates[n])
    THEN Subsequence(rounds, k + 1, candidates, n + 1)
    ELSE Subsequence(rounds, k, candidates, n + 1)

\* the shuffle of this call is over and its loop has started
InLoop(st) ==
    /\ st.op = "create"
    /\ st.pc \in {"loop", "geocode", "photo", "done"}
    /\ st.outcome.error # NoDataError

\* the candidates are the first min(3n, feed size) balloons of a permutation of the
\* feed; the rounds match, in order, candidates among those already tried; what the
\* route answers is those rounds
C21_RoundsFromCandidates ==
    \A r \in Reqs :
        LET st == req[r]
        IN  InLoop(st) =>
              /\ IsPermutation(st.shuffled, st.balloons)
              /\ st.selected = SubSeq(st.shuffled, 1,
                                      Min(3 * st.numRounds, Len(st.balloons)))
              /\ Len(st.rounds) <= st.i
              /\ Subsequence(st.rounds, 1, SubSeq(st.selected, 1, st.i), 1)
              /\ st.response.status = 200 => st.response.rounds = st.rounds

\* while the loop runs the candidates stay as they are; when the index moves on, the
\* round of the candidate just tried is added after the rounds collected so far if its
\* lookup returned a photo, and nothing is added if it missed
C21_RoundAppended ==
    \A r \in Reqs :
        (InLoop(req[r]) /\ InLoop(req'[r])) =>
            /\ req'[r].selected = req[r].selected
            /\ IF req'[r].i = req[r].i
               THEN req'[r].rounds = req[r].rounds
               ELSE /\ req'[r].i = req[r].i + 1
                    /\ IF req'[r].photo.ok
                       THEN /\ Len(req'[r].rounds) = Len(req[r].rounds) + 1
                            /\ SubSeq(req'[r].rounds, 1, Len(req[r].rounds))
                                 = req[r].rounds
                            /\ BuiltFrom(req'[r].rounds[Len(req'[r].rounds)],
                                         req[r].selected[req[r].i + 1])
                       ELSE req'[r].rounds = req[r].rounds

\* C21: the rounds returned by createGameRound are in the order they were produced:
\* they form a subsequence of the first min(3n, feed size) candidates of the
\* permutation, with the same relative order and with missed candidates skipped.
C21_RoundsInOrder ==
    /\ []C21_RoundsFromCandidates
    /\ [][C21_RoundAppended]_vars

\* a call that returned two rounds, from the first and the third candidate, the second
\* candidate having missed; the permutation is not the order of the feed
C21_Witness ==
    \E r \in Reqs :
        /\ Ended(req[r])
        /\ req[r].outcome.kind = "rounds"
        /\ req[r].attempts = 3
        /\ Len(req[r].rounds) = 2
        /\ BuiltFrom(req[r].rounds[1], req[r].selected[1])
        /\ BuiltFrom(req[r].rounds[2], req[r].selected[3])
        /\ ~BuiltFrom(req[r].rounds[1], req[r].selected[2])
        /\ ~BuiltFrom(req[r].rounds[2], req[r].selected[2])
        /\ req[r].selected[1] # req[r].selected[3]
        /\ req[r].selected[1] # req[r].balloons[1]

-----------------------------------------------------------------------------
(* Properties of the lookup path *)

\* a lookup that found no valid entry is under way, or has returned without a photo
LookupMissing(st) ==
    \/ st.pc \in {"geocode", "photo"}
    \/ st.op = "create" /\ LookupOver(st) /\ st.path \in {"nogeo", "nophoto"}

\* the photo service is asked only with a place name; a lookup that returned for want
\* of a place name has not asked it; a lookup that returned without a photo has no
\* photo, and from its load of the cache to its return the document is what it loaded
C22_MissLeavesDocument ==
    \A r \in Reqs :
        LET st == req[r]
        IN  /\ st.pc = "photo" =>
                  st.geoCalled /\ st.photoCalled /\ st.locationName # "" /\ accessKey
            /\ (LookupOver(st) /\ st.path = "nogeo") => st.geoCalled /\ ~st.photoCalled
            /\ LookupMissing(st) =>
                  /\ cacheFile.text = st.docBefore
                  /\ lastSave = st.prevSave
                  /\ st.pc \in {"loop", "done"} => ~st.photo.ok
                  /\ Len(st.rounds) = st.found

\* a lookup returning without a photo adds no round and leaves the file alone; the
\* file changes only in the step of a lookup whose place name and photo both arrived,
\* and then the document holds that entry under the balloon id
C22_WrittenAfterBoth ==
    /\ \A r \in Reqs :
          (req[r].pc \in {"geocode", "photo"} /\ req'[r].pc = "loop"
             /\ ~req'[r].photo.ok) =>
                /\ req'[r].path \in {"nogeo", "nophoto"}
                /\ req[r].pc = "geocode" => ~req'[r].photoCalled
                /\ req'[r].rounds = req[r].rounds
                /\ req'[r].i = req[r].i + 1
                /\ cacheFile' = cacheFile
                /\ lastSave' = lastSave
    /\ (cacheFile' # cacheFile \/ lastSave' # lastSave) =>
          \E r \in Reqs :
              LET balloon == Candidate(req[r])
                  key == CacheKey(balloon.id)
              IN  /\ req[r].pc = "photo"
                  /\ req[r].geoCalled
                  /\ req[r].photoCalled
                  /\ req[r].locationName # ""
                  /\ req'[r].photo.ok
                  /\ req'[r].path = "fresh"
                  /\ cacheFile'.exists
                  /\ DocHas(cacheFile'.text, key)
                  /\ DocEntry(cacheFile'.text, key).photoUrl = req'[r].photo.url
                  /\ DocEntry(cacheFile'.text, key).locationName = req[r].locationName
                  /\ DocEntry(cacheFile'.text, key).timestamp = now
                  /\ lastSave'.key = key

\* C22: on the lookup path (no valid cache entry), when the resolver yields no place
\* name the photo provider is not called, and when either the resolver or the provider
\* yields none, no round is produced for that candidate and the cache document is left
\* unchanged; a cache entry is written only after both succeeded.
C22_LookupPath ==
    /\ []C22_MissLeavesDocument
    /\ [][C22_WrittenAfterBoth]_vars

\* after an earlier candidate was looked up and saved, the photo service was asked for
\* the next one and had no photo: one round, and the document as the save left it
C22_Witness ==
    \E r \in Reqs :
        /\ req[r].op = "create"
        /\ req[r].pc = "loop"
        /\ req[r].attempts >= 2
        /\ req[r].path = "nophoto"
        /\ req[r].photoCalled
        /\ Len(req[r].rounds) = 1
        /\ lastSave # NoSave
        /\ cacheFile.text = req[r].docBefore
        /\ DocHas(cacheFile.text, lastSave.key)
        /\ ~DocHas(cacheFile.text, LookedUpKey(req[r]))

-----------------------------------------------------------------------------
(* Properties of the page *)

\* the sum of the numbers of a sequence of scores
RECURSIVE SumScores(_)
SumScores(scores) ==
    IF Len(scores) = 0 THEN 0
    ELSE scores[1].n + SumScores(Tail(scores))

\* the first score added for each round
FirstScores(credited) == [k \in 1..Len(credited) |-> credited[k][1]]

\* C23: in the browser session each round contributes exactly one score to
\* totalScore: under any ordering of click events and guess responses (repeated clicks
\* on the guess button while a submission is in flight included), when the final
\* screen is shown totalScore is the sum of one score per round and is at most 5000
\* times the number of rounds, and currentRound never exceeds rounds.length.
C23_OneScorePerRound ==
    LET gs == browser.gameState
    IN  /\ gs.currentRound <= Len(gs.rounds)
        /\ browser.screen = "final-screen" =>
              /\ browser.strays = <<>>
              /\ \A k \in 1..Len(browser.credited) : Len(browser.credited[k]) = 1
              /\ gs.totalScore.t = "num"
              /\ gs.totalScore.n = SumScores(FirstScores(browser.credited))
              /\ gs.totalScore.n <= maxScore * Len(gs.rounds)

\* what does hold: currentRound stays within rounds.length, and totalScore is the sum
\* of every score added since the game started, however many per round
C23_EveryAnswerAdded ==
    LET gs == browser.gameState
        all == [k \in 1..Len(browser.credited) |-> SumScores(browser.credited[k])]
        numbers == \A k \in 1..Len(browser.credited) :
                       \A n \in 1..Len(browser.credited[k]) :
                           browser.credited[k][n].t = "num"
        strayNumbers == \A n \in 1..Len(browser.strays) : browser.strays[n].t = "num"
    IN  /\ gs.currentRound <= Len(gs.rounds)
        /\ Len(browser.credited) = Len(gs.rounds)
        /\ IF numbers /\ strayNumbers
           THEN gs.totalScore
                  = Num(SumScores([k \in 1..Len(all) |-> Num(all[k])])
                          + SumScores(browser.strays))
           ELSE gs.totalScore = NaN

\* the final screen of a game of one round whose guess was submitted twice
C23_DoubleSubmission ==
    /\ browser.screen = "final-screen"
    /\ Len(browser.gameState.rounds) = 1
    /\ Len(browser.credited[1]) = 2
    /\ browser.gameState.totalScore = Num(2 * maxScore)

-----------------------------------------------------------------------------
(* Properties of the entries of the other balloon ids *)

\* the members of the two documents under every key but this one are the same
SameOthers(before, after, key) ==
    /\ \A n \in 1..Len(before) :
          before[n].key # key =>
              DocHas(after, before[n].key) /\ DocEntry(after, before[n].key) = before[n]
    /\ \A n \in 1..Len(after) :
          after[n].key # key => DocHas(before, after[n].key)

\* C24: a photo lookup for balloon id k that runs with no concurrent request changes
\* at most the entry stored under k: for every outcome of the cache load, the
\* resolver, the provider and the cache save, the entries of all other balloon ids in
\* the cache document are the same after the lookup as before it.
C24_OtherEntriesKept ==
    \A r \in Reqs :
        req[r].attempts >= 1 =>
            SameOthers(req[r].docBefore, cacheFile.text, LookedUpKey(req[r]))

\* the same, for the lookups whose load of the document did not fail
C24_OtherEntriesKeptWhenLoaded ==
    \A r \in Reqs :
        (req[r].attempts >= 1 /\ req[r].loaded) =>
            SameOthers(req[r].docBefore, cacheFile.text, LookedUpKey(req[r]))

\* a lookup whose load failed saved its entry: the document held two entries and now
\* holds one
C24_EntriesLost ==
    \E r \in Reqs :
        /\ LookupOver(req[r])
        /\ req[r].path = "fresh"
        /\ ~req[r].loaded
        /\ Len(req[r].docBefore) = 2
        /\ Len(cacheFile.text) = 1
        /\ cacheFile.text[1].key = LookedUpKey(req[r])

=============================================================================
